---- MODULE Spec2Model ----
(***************************************************************************)
(* A model of ProxmoxHelpers.py: the node reachability probe               *)
(* (is_node_alive), the VM handle (class ProxmoxVM) with its cache of      *)
(* attributes, and the DNS-name sanitizer used by set_name.                *)
(*                                                                         *)
(* Strings that the code slices or scans are sequences of one-character    *)
(* strings.  Python's None is the value None.  The remote API is the       *)
(* environment: every remote call is recorded in `calls`, and each handler *)
(* takes as input which of its remote calls (if any) raises.               *)
(***************************************************************************)
EXTENDS Integers, Sequences, FiniteSets, TLC

VARIABLES
    new_name,        \* set_name's argument, a sequence of characters
    sanitized_name,  \* what sanitize_dns_name returned for it, or NotRun
    resources,       \* the cluster's VM listing: cluster.resources.get(type='vm')
    ha_resources,    \* the cluster's HA listing: cluster.ha.resources.get()
    node_list,       \* the cluster's node listing: connection.nodes.get()
    vm,              \* <<>> while no handle exists, <<self>> once constructed
    op,              \* the last operation called, with its arguments
    calls,           \* the remote calls the last operation issued, in order
    ret              \* how the last operation ended: a return value or a raise

vars == <<new_name, sanitized_name, resources, ha_resources, node_list, vm, op, calls, ret>>

None == "None"
\* sanitized_name before sanitize_dns_name ran: no sequence of characters.
NotRun == <<"NotRun">>

Min(a, b) == IF a <= b THEN a ELSE b

(***************************************************************************)
(* sanitize_dns_name                                                       *)
(***************************************************************************)

\* Bounds of the inputs: a name is up to MaxRuns runs of one repeated character.
MaxRuns == 3
RunLens == {1, 62, 300}
InputChars == {"B", "7", "-", "."}

\* The character classes of the regular expression [^a-z0-9-], over the
\* characters that occur.
LowerLetters == {"b"}
Digits == {"7"}
AllowedChars == LowerLetters \cup Digits \cup {"-"}

MaxNameLen == 253
MaxLabelLen == 63

\* str.lower() on one character.
LowerChar(c) == IF c = "B" THEN "b" ELSE c

\* name.lower()
Lowered(name) == [i \in 1..Len(name) |-> LowerChar(name[i])]

\* re.sub(r"[^a-z0-9-]", "-", name)
ReplaceInvalid(name) ==
    [i \in 1..Len(name) |-> IF name[i] \in AllowedChars THEN name[i] ELSE "-"]

\* name.strip("-")
StripHyphens(name) ==
    LET keep == {i \in 1..Len(name) : name[i] # "-"}
    IN  IF keep = {} THEN <<>>
        ELSE LET first == CHOOSE i \in keep : \A j \in 1..(i - 1) : name[j] = "-"
                 last  == CHOOSE i \in keep : \A j \in (i + 1)..Len(name) : name[j] = "-"
             IN  SubSeq(name, first, last)

\* name[:n]
Prefix(name, n) == SubSeq(name, 1, Min(Len(name), n))

\* name[:253]
TruncateName(name) == Prefix(name, MaxNameLen)

\* name.split("."): the labels between the dots, empty labels included.
RECURSIVE SplitDots(_)
SplitDots(name) ==
    LET dots == {i \in 1..Len(name) : name[i] = "."}
    IN  IF dots = {} THEN <<name>>
        ELSE LET d == CHOOSE i \in dots : \A j \in 1..(i - 1) : name[j] # "."
             IN  <<SubSeq(name, 1, d - 1)>> \o SplitDots(SubSeq(name, d + 1, Len(name)))

\* ".".join(labels)
RECURSIVE JoinDots(_)
JoinDots(labels) ==
    IF Len(labels) = 1 THEN labels[1]
    ELSE labels[1] \o <<".">> \o JoinDots(Tail(labels))

\* label[:63]
CapLabelNoCap(label) == label
CapLabel(label) == Prefix(label, MaxLabelLen)

\* ".".join(label[:63] for label in name.split("."))
CapLabels(name) ==
    LET labels == SplitDots(name)
    IN  JoinDots([k \in 1..Len(labels) |-> CapLabel(labels[k])])

\* The value of `name` just before the label cap (lines 108-114).
BeforeLabelCap(name) == TruncateName(StripHyphens(ReplaceInvalid(Lowered(name))))

sanitize_dns_name(name) == CapLabels(BeforeLabelCap(name))

\* The input names: concatenations of at most MaxRuns runs.
Run(c, n) == [i \in 1..n |-> c]
RunSet == {Run(c, n) : c \in InputChars, n \in RunLens}
RECURSIVE NamesOfRuns(_)
NamesOfRuns(k) ==
    IF k = 0 THEN {<<>>}
    ELSE LET shorter == NamesOfRuns(k - 1)
         IN  shorter \cup {s \o r : s \in shorter, r \in RunSet}
InputNames == NamesOfRuns(MaxRuns)

(***************************************************************************)
(* The cluster, as the remote API shows it                                 *)
(***************************************************************************)

\* Bounds of the cluster.
MaxVMs == 2          \* entries in the VM listing
MaxNodes == 3        \* entries in the node listing

VMIDs == {100, 101}
NodeNames == {"pve1", "pve2"}
PoolNames == {"prod", "dev"}
GroupNames == {"g1", "g2"}

\* Two entries of the VM listing for one vmid, differing in every field.  A key
\* the entry lacks is None: each_vm.get(key) returns None for it.
EntryOf(vmid, k) ==
    IF k = 1
    THEN [vmid |-> vmid, node |-> "pve1", pool |-> "prod", name |-> <<"w", "e", "b">>,
          tags |-> "a;b", cpu |-> 1, disk |-> 10, maxcpu |-> 2, maxdisk |-> 32,
          maxmem |-> 2048, mem |-> 512, status |-> "running", storage |-> "local",
          uptime |-> 100]
    ELSE [vmid |-> vmid, node |-> "pve2", pool |-> None, name |-> <<"d", "b">>,
          tags |-> None, cpu |-> 0, disk |-> 0, maxcpu |-> 4, maxdisk |-> 64,
          maxmem |-> 4096, mem |-> 0, status |-> "stopped", storage |-> None,
          uptime |-> 0]

Entries == {EntryOf(100, 1), EntryOf(100, 2), EntryOf(101, 1)}

RECURSIVE SeqsUpTo(_, _)
SeqsUpTo(S, n) ==
    IF n = 0 THEN {<<>>}
    ELSE LET shorter == SeqsUpTo(S, n - 1)
         IN  shorter \cup {Append(s, x) : s \in shorter, x \in S}

Listings == SeqsUpTo(Entries, MaxVMs)

\* f'vm:{self._vmid}'
Sid(vmid) == <<"vm", ":", vmid>>

\* One registration of the HA listing.  A registration made without a group
\* has no 'group' key: resource.get('group', None) is None for it.
HAReg(vmid, group, status, state) ==
    [sid |-> Sid(vmid), group |-> group, status |-> status, state |-> state]

\* The exceptions a remote call can raise; both derive from Exception, and
\* neither from the other.
ExcKinds == {"ConnectionError", "ResourceException"}

\* A handler runs its remote calls in order.  ctx.calls are the calls issued so
\* far, ctx.ha the HA listing as the writes so far left it, ctx.raised the
\* exception in flight (None when there is none).  fault = [at, exc]: the
\* fault.at-th call issued raises fault.exc (at = 0: none raises).
NoFault == [at |-> 0, exc |-> None]
Faults(n) == {NoFault} \cup {[at |-> i, exc |-> e] : i \in 1..n, e \in ExcKinds}

StartCtx(ha) == [calls |-> <<>>, ha |-> ha, raised |-> None]

IsWrite(c) == c.verb \in {"put", "post", "create", "delete"}
Writes(cs) == SelectSeq(cs, IsWrite)

\* What a successful HA write does to the HA listing.
HAEffect(ha, c) ==
    IF c.path # "cluster/ha/resources" THEN ha
    ELSE CASE c.verb = "put" ->
                [i \in 1..Len(ha) |->
                    IF ha[i].sid = c.target THEN [ha[i] EXCEPT !.state = c.args[1][2]]
                    ELSE ha[i]]
           [] c.verb = "delete" ->
                SelectSeq(ha, LAMBDA r : r.sid # c.target)
           [] c.verb = "create" ->
                Append(ha, [sid |-> c.args[1][2], group |-> c.args[2][2],
                            status |-> "started", state |-> c.args[3][2]])
           [] OTHER -> ha

\* The cluster keeps one registration per sid: it rejects the create of a sid
\* that is registered.
Rejected(ha, verb, path, args) ==
    /\ verb = "create"
    /\ path = "cluster/ha/resources"
    /\ \E i \in 1..Len(ha) : ha[i].sid = args[1][2]

\* One remote call: skipped when an exception is in flight, else issued; it
\* raises if it is the call the fault names or the cluster rejects it, and
\* takes effect otherwise.  The record of a call keeps what the call returned
\* (`response`, a listing for a read) or raised (`exc`).
Remote(ctx, fault, verb, path, target, args, response) ==
    IF ctx.raised # None THEN ctx
    ELSE LET faulty == (Len(ctx.calls) + 1 = fault.at)
             bad == faulty \/ Rejected(ctx.ha, verb, path, args)
             exc == IF faulty THEN fault.exc
                    ELSE IF bad THEN "ResourceException" ELSE None
             c == [verb |-> verb, path |-> path, target |-> target, args |-> args,
                   ok |-> ~bad, exc |-> exc,
                   response |-> IF bad THEN <<>> ELSE response]
         IN  [calls  |-> Append(ctx.calls, c),
              ha     |-> IF bad THEN ctx.ha ELSE HAEffect(ctx.ha, c),
              raised |-> exc]

\* try: ... except Exception: the exception in flight is caught.
Caught(ctx) == [ctx EXCEPT !.raised = None]

Returned(value) == [kind |-> "return", value |-> value]
Raised(exc) == [kind |-> "raise", value |-> exc]

\* How a handler that returns `value` unless an exception escapes it ends.
Outcome(ctx, value) == IF ctx.raised # None THEN Raised(ctx.raised) ELSE Returned(value)

(***************************************************************************)
(* class ProxmoxVM                                                         *)
(***************************************************************************)

\* The listing's first entry whose vmid is vmid, as a sequence of 0 or 1 entries.
FirstMatchLast(listing, vmid) ==
    LET hits == SelectSeq(listing, LAMBDA e : e.vmid = vmid)
    IN  IF hits = <<>> THEN <<>> ELSE <<hits[Len(hits)]>>
FirstMatch(listing, vmid) ==
    LET hits == SelectSeq(listing, LAMBDA e : e.vmid = vmid)
    IN  IF hits = <<>> THEN <<>> ELSE <<hits[1]>>

\* __init__, lines 46-81: the handle's fields after the scan found entry e.
HandleOf(vm_id, e) ==
    [vmid |-> vm_id, node |-> e.node, pool |-> e.pool, name |-> e.name,
     tags |-> e.tags, cpu |-> e.cpu, disk |-> e.disk, maxcpu |-> e.maxcpu,
     maxdisk |-> e.maxdisk, maxmem |-> e.maxmem, mem |-> e.mem,
     status |-> e.status, storage |-> e.storage, uptime |-> e.uptime]

Self == vm[1]

get_name(self) == self.name
get_status(self) == self.status

\* The remote read both __init__ and get_node make.
ListVMs(ctx, fault) ==
    Remote(ctx, fault, "get", "cluster/resources", <<>>, <<<<"type", "vm">>>>, resources)

\* get_node, lines 129-138, once the listing is read: the value returned and
\* the handle with _node refreshed.
NodeFound(self, listing) ==
    LET hit == FirstMatch(listing, self.vmid)
    IN  IF hit = <<>> THEN [node |-> None, self |-> self]
        ELSE [node |-> hit[1].node, self |-> [self EXCEPT !.node = hit[1].node]]

\* self.get_node() as one step of a handler: the listing is read, and unless
\* that raises the handle's _node is refreshed.
GetNode(ctx, self, fault) ==
    LET ctx1 == ListVMs(ctx, fault)
    IN  IF ctx1.raised # None THEN [ctx |-> ctx1, self |-> self, node |-> None]
        ELSE LET r == NodeFound(self, resources)
             IN  [ctx |-> ctx1, self |-> r.self, node |-> r.node]

\* The state a handler leaves: the handle, the HA listing after its writes,
\* and the record of the call.
Finish(name, args, self, ctx, result) ==
    /\ vm' = <<self>>
    /\ ha_resources' = ctx.ha
    /\ op' = [name |-> name, args |-> args]
    /\ calls' = ctx.calls
    /\ ret' = result
    /\ UNCHANGED <<new_name, sanitized_name, resources, node_list>>

\* ProxmoxVM(proxmox_api, vm_id): a handle exists afterwards only if the scan
\* found the vmid; otherwise ValueError is raised.
Construct(vm_id, fault) ==
    /\ vm = <<>>
    /\ LET ctx1 == ListVMs(StartCtx(ha_resources), fault)
           hit == FirstMatch(resources, vm_id)
       IN  /\ vm' = IF ctx1.raised = None /\ hit # <<>>
                    THEN <<HandleOf(vm_id, hit[1])>> ELSE <<>>
           /\ ret' = IF ctx1.raised # None THEN Raised(ctx1.raised)
                     ELSE IF hit = <<>> THEN Raised("ValueError")
                     ELSE Returned(None)
           /\ calls' = ctx1.calls
    /\ op' = [name |-> "__init__", args |-> <<vm_id>>]
    /\ UNCHANGED <<new_name, sanitized_name, resources, ha_resources, node_list>>

\* set_name: the put goes to the cached _node, outside any try, and the
\* cached _name is not assigned.
set_name(name, fault) ==
    /\ vm # <<>>
    /\ LET sanitized == sanitize_dns_name(name)
           ctx1 == Remote(StartCtx(ha_resources), fault, "put", "nodes/qemu/config",
                          <<Self.node, Self.vmid>>, <<<<"name", sanitized>>>>, <<>>)
       IN  Finish("set_name", <<name>>, Self, ctx1, Outcome(ctx1, None))

set_pool(resource_pool_name, fault) ==
    /\ vm # <<>>
    /\ LET ctx1 == Remote(StartCtx(ha_resources), fault, "put", "pools",
                          <<resource_pool_name>>,
                          <<<<"vms", Self.vmid>>, <<"allow-move", 1>>>>, <<>>)
       IN  IF ctx1.raised = None
           THEN Finish("set_pool", <<resource_pool_name>>,
                       [Self EXCEPT !.pool = resource_pool_name], ctx1, Returned("True"))
           ELSE Finish("set_pool", <<resource_pool_name>>, Self, Caught(ctx1),
                       Returned("False"))

\* The shape start_vm, stop_vm and reset_vm share: under `guard`, post `path`
\* to the VM on the node get_node reports and cache `status`; any exception is
\* printed and swallowed.
PowerOp(name, guard, path, status, fault) ==
    /\ vm # <<>>
    /\ IF ~guard
       THEN Finish(name, <<>>, Self, StartCtx(ha_resources), Returned(None))
       ELSE LET g == GetNode(StartCtx(ha_resources), Self, fault)
                ctx2 == Remote(g.ctx, fault, "post", path, <<g.node, Self.vmid>>, <<>>, <<>>)
                self2 == IF ctx2.raised = None THEN [g.self EXCEPT !.status = status]
                         ELSE g.self
            IN  Finish(name, <<>>, self2, Caught(ctx2), Returned(None))

\* The class body defines start_vm and stop_vm twice; the later definition of
\* each name is the method the class has.
start_vm_first(fault) ==
    PowerOp("start_vm", Self.status # "running", "nodes/qemu/status/start", "running", fault)
stop_vm_first(fault) ==
    PowerOp("stop_vm", Self.status = "running", "nodes/qemu/status/stop", "stopped", fault)
reset_vm(fault) ==
    PowerOp("reset_vm", Self.status = "running", "nodes/qemu/status/reset", "unknown", fault)
start_vm_second(fault) ==
    PowerOp("start_vm", Self.status # "running", "nodes/qemu/status/start", "unknown", fault)
stop_vm_second(fault) ==
    PowerOp("stop_vm", Self.status # "stopped", "nodes/qemu/status/stop", "stopped", fault)

start_vm(fault) == start_vm_second(fault)
stop_vm(fault) == stop_vm_second(fault)

\* The shape set_cpu and set_memory share: put one configuration on the node
\* get_node reports; cache `value` and return True, or return False on any
\* exception.
ConfigSetter(name, args, config, field, value, fault) ==
    /\ vm # <<>>
    /\ LET g == GetNode(StartCtx(ha_resources), Self, fault)
           ctx2 == Remote(g.ctx, fault, "put", "nodes/qemu/config",
                          <<g.node, Self.vmid>>, config, <<>>)
       IN  IF ctx2.raised = None
           THEN Finish(name, args, [g.self EXCEPT ![field] = value], ctx2, Returned("True"))
           ELSE Finish(name, args, g.self, Caught(ctx2), Returned("False"))

set_cpu(cores, sockets, fault) ==
    ConfigSetter("set_cpu", <<cores, sockets>>,
                 <<<<"sockets", sockets>>, <<"cores", cores>>>>,
                 "maxcpu", sockets * cores, fault)

\* memory_mb = memory_gb * 1024
MemoryMBNoConversion(memory_gb) == memory_gb
MemoryMB(memory_gb) == memory_gb * 1024

set_memory(memory_gb, fault) ==
    ConfigSetter("set_memory", <<memory_gb>>, <<<<"memory", MemoryMB(memory_gb)>>>>,
                 "maxmem", MemoryMB(memory_gb), fault)

\* The shape the two network adapter methods share: get_node and the put are
\* outside any try, so an exception escapes.
AdapterPut(name, i, setting, fault) ==
    /\ vm # <<>>
    /\ LET g == GetNode(StartCtx(ha_resources), Self, fault)
           ctx2 == Remote(g.ctx, fault, "put", "nodes/qemu/config",
                          <<g.node, Self.vmid>>, <<<<<<"net", i>>, setting>>>>, <<>>)
       IN  Finish(name, <<i>>, g.self, ctx2, Outcome(ctx2, None))

disconnect_network_adapter(i, fault) ==
    AdapterPut("disconnect_network_adapter", i, "link_down=1,model=virtio", fault)
connect_network_adapter(i, fault) ==
    AdapterPut("connect_network_adapter", i, "link_down=0,model=virtio", fault)

\* migrate_vm: the first get_node is outside the try; inside it only
\* ResourceException is caught.
MigrateGuardIgnored(current, node) == FALSE
AlreadyOn(current, node) == current = node

migrate_vm(node, fault) ==
    /\ vm # <<>>
    /\ LET g1 == GetNode(StartCtx(ha_resources), Self, fault)
       IN  IF g1.ctx.raised # None
           THEN Finish("migrate_vm", <<node>>, g1.self, g1.ctx, Outcome(g1.ctx, None))
           ELSE IF AlreadyOn(g1.node, node)
           THEN Finish("migrate_vm", <<node>>, g1.self, g1.ctx, Returned(None))
           ELSE LET g2 == GetNode(g1.ctx, g1.self, fault)
                    ctx3 == Remote(g2.ctx, fault, "post", "nodes/qemu/migrate",
                                   <<g2.node, Self.vmid>>,
                                   <<<<"target", node>>, <<"online", 1>>>>, <<>>)
                    ctx4 == IF ctx3.raised = "ResourceException" THEN Caught(ctx3)
                            ELSE ctx3
                IN  Finish("migrate_vm", <<node>>, g2.self, ctx4, Outcome(ctx4, None))

\* get_ha_group, lines 376-380: the group of the first registration whose sid
\* is this VM's, None when it has no group or no registration is found.
get_ha_group(ctx, self, fault) ==
    LET ctx1 == Remote(ctx, fault, "get", "cluster/ha/resources", <<>>, <<>>, ctx.ha)
        hits == SelectSeq(ctx.ha, LAMBDA r : r.sid = Sid(self.vmid))
    IN  [ctx |-> ctx1,
         group |-> IF ctx1.raised # None \/ hits = <<>> THEN None ELSE hits[1].group]

\* remove_from_ha_group as a step of a handler.
RemoveFromHA(ctx, self, fault) ==
    LET g == get_ha_group(ctx, self, fault)
    IN  IF g.ctx.raised # None \/ g.group = None THEN g.ctx
        ELSE LET ctx2 == Remote(g.ctx, fault, "put", "cluster/ha/resources",
                                Sid(self.vmid), <<<<"state", "disabled">>>>, <<>>)
             IN  Remote(ctx2, fault, "delete", "cluster/ha/resources",
                        Sid(self.vmid), <<>>, <<>>)

remove_from_ha_group(fault) ==
    /\ vm # <<>>
    /\ LET ctx1 == RemoveFromHA(StartCtx(ha_resources), Self, fault)
       IN  Finish("remove_from_ha_group", <<>>, Self, ctx1, Outcome(ctx1, None))

\* add_to_ha_group_started, lines 394-397: the loop over the listing read at
\* line 393, from its i-th registration on.
RECURSIVE ErrorScan(_, _, _, _, _)
ErrorScan(ctx, listing, i, self, fault) ==
    IF i > Len(listing) \/ ctx.raised # None THEN ctx
    ELSE IF listing[i].sid = Sid(self.vmid) /\ listing[i].status = "error"
         THEN ErrorScan(RemoveFromHA(ctx, self, fault), listing, i + 1, self, fault)
         ELSE ErrorScan(ctx, listing, i + 1, self, fault)

add_to_ha_group_started(group, fault) ==
    /\ vm # <<>>
    /\ LET ctx1 == Remote(StartCtx(ha_resources), fault, "get", "cluster/ha/resources",
                          <<>>, <<>>, ha_resources)
           ctx2 == ErrorScan(ctx1, ha_resources, 1, Self, fault)
           ctx3 == Remote(ctx2, fault, "create", "cluster/ha/resources", <<>>,
                          <<<<"sid", Sid(Self.vmid)>>, <<"group", group>>,
                            <<"state", "started">>>>, <<>>)
       IN  Finish("add_to_ha_group_started", <<group>>, Self, ctx3, Outcome(ctx3, None))

(***************************************************************************)
(* is_node_alive                                                           *)
(***************************************************************************)

\* An entry of the node listing; one without the 'node' key makes n["node"]
\* raise KeyError.
NodeEntries == {[node |-> n, status |-> "online"] : n \in NodeNames}
                   \cup {[status |-> "unknown"]}
NodeListings == SeqsUpTo(NodeEntries, MaxNodes)

\* Lines 18-29: the scan of the listing from its i-th entry on.  The result is
\* the context and the value returned (None while an exception is in flight).
RECURSIVE NodeScan(_, _, _, _, _)
NodeScan(ctx, nodes, i, node, fault) ==
    IF i > Len(nodes) THEN [ctx |-> ctx, value |-> "False"]
    ELSE IF "node" \notin DOMAIN nodes[i]
         THEN [ctx |-> [ctx EXCEPT !.raised = "KeyError"], value |-> None]
    ELSE IF nodes[i].node = node
         THEN LET ctx1 == Remote(ctx, fault, "get", "nodes/status", <<node>>, <<>>, <<>>)
              IN  IF ctx1.raised = None THEN [ctx |-> ctx1, value |-> "True"]
                  ELSE IF ctx1.raised = "ConnectionError"
                       THEN [ctx |-> Caught(ctx1), value |-> "False"]
                       ELSE [ctx |-> ctx1, value |-> None]
    ELSE NodeScan(ctx, nodes, i + 1, node, fault)

\* The outer handler, lines 31-33: except Exception returns False.
OuterHandlerReraises(r) == Outcome(r.ctx, r.value)
OuterHandler(r) == IF r.ctx.raised # None THEN Returned("False") ELSE Returned(r.value)

is_node_alive(node, fault) ==
    LET ctx1 == Remote(StartCtx(<<>>), fault, "get", "nodes", <<>>, <<>>, node_list)
        r == IF ctx1.raised # None THEN [ctx |-> ctx1, value |-> None]
             ELSE NodeScan(ctx1, node_list, 1, node, fault)
    IN  /\ op' = [name |-> "is_node_alive", args |-> <<node>>]
        /\ calls' = r.ctx.calls
        /\ ret' = OuterHandler(r)
        /\ UNCHANGED <<new_name, sanitized_name, resources, ha_resources, node_list, vm>>

(***************************************************************************)
(* The environment and the specifications                                  *)
(***************************************************************************)

\* Bounds of the arguments.
MaxCores == 2
MaxSockets == 2
MaxMemoryGB == 4
MaxAdapter == 1

\* The names the handle is renamed to.
RenameInputs == {<<"M", "y", " ", "V", "M">>, <<"a", "-">>, <<"d", "b">>}

\* The HA listings: at most one registration per sid.
HARegs == {HAReg(100, g, s, "started") : g \in {None, "g1"}, s \in {"started", "error"}}
              \cup {HAReg(101, "g1", "error", "started")}
HAListings ==
    {l \in SeqsUpTo(HARegs, Cardinality(VMIDs)) :
        \A i, j \in 1..Len(l) : l[i].sid = l[j].sid => i = j}

NoOp == [name |-> "none", args |-> <<>>]

\* The cluster changes under the handle: VMs appear, move, stop or are removed.
ClusterChanges ==
    /\ resources' \in Listings \ {resources}
    /\ op' = [name |-> "cluster", args |-> <<>>]
    /\ calls' = <<>>
    /\ ret' = Returned(None)
    /\ UNCHANGED <<new_name, sanitized_name, ha_resources, node_list, vm>>

\* The HA manager or an operator changes the registrations.
HAChanges ==
    /\ ha_resources' \in HAListings \ {ha_resources}
    /\ op' = [name |-> "cluster", args |-> <<>>]
    /\ calls' = <<>>
    /\ ret' = Returned(None)
    /\ UNCHANGED <<new_name, sanitized_name, resources, node_list, vm>>

\* Nodes join or leave the cluster.
NodesChange ==
    /\ node_list' \in NodeListings \ {node_list}
    /\ op' = [name |-> "cluster", args |-> <<>>]
    /\ calls' = <<>>
    /\ ret' = Returned(None)
    /\ UNCHANGED <<new_name, sanitized_name, resources, ha_resources, vm>>

\* A handle just constructed over some VM listing: the state after __init__.
Constructed ==
    /\ new_name = <<>>
    /\ sanitized_name = NotRun
    /\ resources \in Listings
    /\ ha_resources = <<>>
    /\ node_list = <<>>
    /\ vm \in {<<HandleOf(v, FirstMatch(resources, v)[1])>> :
                  v \in {w \in VMIDs : FirstMatch(resources, w) # <<>>}}
    /\ op = NoOp
    /\ calls = <<>>
    /\ ret = Returned(None)

\* Construction, renaming, the pool setter, the adapters and migration, over a cluster that changes.
Init ==
    /\ new_name = <<>>
    /\ sanitized_name = NotRun
    /\ resources \in Listings
    /\ ha_resources = <<>>
    /\ node_list = <<>>
    /\ vm = <<>>
    /\ op = NoOp
    /\ calls = <<>>
    /\ ret = Returned(None)

Next ==
    \/ \E vm_id \in VMIDs, fault \in Faults(1) : Construct(vm_id, fault)
    \/ \E name \in RenameInputs, fault \in Faults(1) : set_name(name, fault)
    \/ \E pool \in PoolNames, fault \in Faults(1) : set_pool(pool, fault)
    \/ \E i \in 0..MaxAdapter, fault \in Faults(2) : disconnect_network_adapter(i, fault)
    \/ \E i \in 0..MaxAdapter, fault \in Faults(2) : connect_network_adapter(i, fault)
    \/ \E node \in NodeNames, fault \in Faults(3) : migrate_vm(node, fault)
    \/ ClusterChanges

Spec == Init /\ [][Next]_vars

\* The power operations of a constructed handle.
NextPower ==
    \/ \E fault \in Faults(2) : start_vm(fault)
    \/ \E fault \in Faults(2) : stop_vm(fault)
    \/ \E fault \in Faults(2) : reset_vm(fault)
    \/ ClusterChanges

SpecPower == Constructed /\ [][NextPower]_vars

\* The memory setter of a constructed handle.
NextMemory ==
    \/ \E memory_gb \in 0..MaxMemoryGB, fault \in Faults(2) : set_memory(memory_gb, fault)
    \/ ClusterChanges

SpecMemory == Constructed /\ [][NextMemory]_vars

\* The CPU setter of a constructed handle.
NextCpu ==
    \/ \E cores \in 1..MaxCores, sockets \in 1..MaxSockets, fault \in Faults(2) :
          set_cpu(cores, sockets, fault)
    \/ ClusterChanges

SpecCpu == Constructed /\ [][NextCpu]_vars

\* The HA operations of a constructed handle, over every HA listing.
InitHA ==
    /\ new_name = <<>>
    /\ sanitized_name = NotRun
    /\ resources = <<EntryOf(100, 1), EntryOf(101, 1)>>
    /\ ha_resources \in HAListings
    /\ node_list = <<>>
    /\ vm \in {<<HandleOf(v, FirstMatch(resources, v)[1])>> : v \in VMIDs}
    /\ op = NoOp
    /\ calls = <<>>
    /\ ret = Returned(None)

NextHA ==
    \/ \E group \in GroupNames, fault \in Faults(5) : add_to_ha_group_started(group, fault)
    \/ \E fault \in Faults(3) : remove_from_ha_group(fault)
    \/ HAChanges

SpecHA == InitHA /\ [][NextHA]_vars

\* The node probe, over every node listing.
InitNode ==
    /\ new_name = <<>>
    /\ sanitized_name = NotRun
    /\ resources = <<>>
    /\ ha_resources = <<>>
    /\ node_list \in NodeListings
    /\ vm = <<>>
    /\ op = NoOp
    /\ calls = <<>>
    /\ ret = Returned(None)

NextNode ==
    \/ \E node \in NodeNames, fault \in Faults(2) : is_node_alive(node, fault)
    \/ NodesChange

SpecNode == InitNode /\ [][NextNode]_vars

\* The sanitizer alone, over the input names.
InitSanitize ==
    /\ new_name \in InputNames
    /\ sanitized_name = NotRun
    /\ resources = <<>>
    /\ ha_resources = <<>>
    /\ node_list = <<>>
    /\ vm = <<>>
    /\ op = NoOp
    /\ calls = <<>>
    /\ ret = Returned(None)

\* set_name, line 120: sanitized_name = sanitize_dns_name(new_name)
Sanitize ==
    /\ sanitized_name = NotRun
    /\ sanitized_name' = sanitize_dns_name(new_name)
    /\ UNCHANGED <<new_name, resources, ha_resources, node_list, vm, op, calls, ret>>

NextSanitize == Sanitize

SpecSanitize == InitSanitize /\ [][NextSanitize]_vars

(***************************************************************************)
(* The claims                                                              *)
(***************************************************************************)

\* The indices of the listing's entries whose vmid is vmid.
MatchesIn(listing, vmid) == {i \in 1..Len(listing) : listing[i].vmid = vmid}
Least(S) == CHOOSE i \in S : \A j \in S : i <= j

\* The cached fields C1 names.
CachedFields ==
    {"node", "pool", "name", "tags", "cpu", "disk", "maxcpu", "maxdisk", "maxmem",
     "mem", "status", "uptime"}

\* C1: once the VM listing is read, ProxmoxVM(api, vm_id) produces a handle
\* exactly when the listing has an entry whose vmid is vm_id; every cached
\* field of the handle then equals that field of the first such entry; with
\* no such entry the construction raises ValueError and produces no handle.
C1_Construction ==
    (op.name = "__init__" /\ calls[1].ok) =>
        LET m == MatchesIn(resources, op.args[1])
        IN  /\ (vm # <<>>) <=> (m # {})
            /\ m # {} =>
                  /\ ret = Returned(None)
                  /\ Self.vmid = op.args[1]
                  /\ \A f \in CachedFields : Self[f] = resources[Least(m)][f]
            /\ m = {} => ret = Raised("ValueError")

\* C1's case: a handle built from a listing that holds two different entries
\* for its vmid.
C1_Witness ==
    /\ op.name = "__init__"
    /\ vm # <<>>
    /\ \E i, j \in MatchesIn(resources, op.args[1]) : resources[i] # resources[j]

\* Whether the node listing has an entry named node.
Listed(nodes, node) ==
    \E i \in 1..Len(nodes) : "node" \in DOMAIN nodes[i] /\ nodes[i].node = node

\* Whether the calls hold a status query against node that succeeded.
StatusQueryOk(cs, node) ==
    \E k \in 1..Len(cs) : cs[k].path = "nodes/status" /\ cs[k].target = <<node>> /\ cs[k].ok

\* C2: is_node_alive always returns, never raises; it returns True exactly
\* when the node listing names the node and the status query against the node
\* succeeded, and False in every other case.
C2_NodeAlive ==
    op.name = "is_node_alive" =>
        /\ ret.kind = "return"
        /\ ret.value \in {"True", "False"}
        /\ ret.value = "True" <=>
              (Listed(node_list, op.args[1]) /\ StatusQueryOk(calls, op.args[1]))

\* C2's case: the status query raised an exception other than ConnectionError
\* and False was returned.
C2_Witness ==
    /\ op.name = "is_node_alive"
    /\ Len(calls) = 2
    /\ calls[2].path = "nodes/status"
    /\ calls[2].exc = "ResourceException"
    /\ ret = Returned("False")

Mutators ==
    {"set_name", "set_pool", "set_cpu", "set_memory", "connect_network_adapter",
     "disconnect_network_adapter", "start_vm", "stop_vm", "reset_vm",
     "add_to_ha_group_started", "remove_from_ha_group", "migrate_vm"}

\* The cached attribute that corresponds to a successful write w of the
\* operation o holds what was written.
CacheFollows(o, w) ==
    CASE o.name = "set_name"   -> get_name(Self) = w.args[1][2]
      [] o.name = "set_pool"   -> Self.pool = w.target[1]
      [] o.name = "set_cpu"    -> Self.maxcpu = o.args[1] * o.args[2]
      [] o.name = "set_memory" -> Self.maxmem = w.args[1][2]
      [] o.name = "start_vm"   -> get_status(Self) = "running"
      [] o.name = "stop_vm"    -> get_status(Self) = "stopped"
      [] OTHER -> TRUE

\* C3: a mutator that acts issues exactly one remote write, and when the write
\* succeeds the cached attribute it corresponds to holds what was written
\* (after set_name, get_name returns the name sent).
C3_Original ==
    (op.name \in Mutators /\ Writes(calls) # <<>>) =>
        /\ Len(Writes(calls)) = 1
        /\ Writes(calls)[1].ok => CacheFollows(op, Writes(calls)[1])

\* Whether the HA listing has a registration of vmid (in status `status`).
Registered(ha, vmid) == \E i \in 1..Len(ha) : ha[i].sid = Sid(vmid)
RegisteredIn(ha, vmid, status) ==
    \E i \in 1..Len(ha) : ha[i].sid = Sid(vmid) /\ ha[i].status = status

IsHACall(c, verb, vmid) ==
    /\ c.path = "cluster/ha/resources"
    /\ c.verb = verb
    /\ IF verb = "create" THEN c.args[1][2] = Sid(vmid) ELSE c.target = Sid(vmid)

\* No call other than a create raised.
OnlyCreateMayFail(cs) == \A k \in 1..Len(cs) : cs[k].ok \/ cs[k].verb = "create"

\* C4: add_to_ha_group_started(group), when no call before the create raises:
\* a registration of this VM that the listing shows in status 'error' is
\* deleted before the create is issued; exactly one create is issued, for this
\* VM's sid, the requested group and state 'started', and it is the last call.
C4_Original ==
    (op.name = "add_to_ha_group_started" /\ OnlyCreateMayFail(calls)) =>
        LET last == calls[Len(calls)]
        IN  /\ IsHACall(last, "create", Self.vmid)
            /\ last.args = <<<<"sid", Sid(Self.vmid)>>, <<"group", op.args[1]>>,
                             <<"state", "started">>>>
            /\ Cardinality({k \in 1..Len(calls) : calls[k].verb = "create"}) = 1
            /\ RegisteredIn(calls[1].response, Self.vmid, "error") =>
                  \E k \in 1..(Len(calls) - 1) :
                      IsHACall(calls[k], "delete", Self.vmid) /\ calls[k].ok

\* C5: remove_from_ha_group(), once the HA listing is read: with no
\* registration of this VM no write is issued; with one, and no write raising,
\* the writes are the put of state 'disabled' and then the delete.
C5_Original ==
    (op.name = "remove_from_ha_group" /\ \A k \in 1..Len(calls) : calls[k].ok) =>
        LET w == Writes(calls)
        IN  IF ~Registered(calls[1].response, Self.vmid) THEN w = <<>>
            ELSE /\ Len(w) = 2
                 /\ IsHACall(w[1], "put", Self.vmid)
                 /\ w[1].args = <<<<"state", "disabled">>>>
                 /\ IsHACall(w[2], "delete", Self.vmid)

\* Whether the cluster's VM listing shows this VM on node.
ResidesOn(node) ==
    LET m == MatchesIn(resources, Self.vmid)
    IN  m # {} /\ resources[Least(m)].node = node

\* C6 as claimed: migrate_vm(node) to the node the VM resides on performs no
\* remote call and returns without error.
C6_Original ==
    (op.name = "migrate_vm" /\ ResidesOn(op.args[1])) =>
        (calls = <<>> /\ ret = Returned(None))

\* C6 as amended: migrate_vm(node) to the node the VM resides on issues one
\* remote call, the read of the VM listing that get_node makes, and no write:
\* no migration request; it returns without error unless that read raises.
C6_NoMigration ==
    (op.name = "migrate_vm" /\ ResidesOn(op.args[1])) =>
        /\ Len(calls) = 1
        /\ calls[1].verb = "get" /\ calls[1].path = "cluster/resources"
        /\ Writes(calls) = <<>>
        /\ calls[1].ok => ret = Returned(None)

\* C6's case: a migration to the node the VM resides on returned.
C6_Witness ==
    /\ op.name = "migrate_vm"
    /\ ResidesOn(op.args[1])
    /\ calls # <<>> /\ calls[1].ok
    /\ ret = Returned(None)

\* C7: set_memory(memory_gb) issues at most one write, and once get_node's
\* read went through exactly one: the put of memory = memory_gb * 1024; when
\* no call raises it returns True and the cached maxmem is memory_gb * 1024;
\* when a call raises it returns False.
C7_Result ==
    op.name = "set_memory" =>
        LET w == Writes(calls)
            mb == op.args[1] * 1024
        IN  /\ Len(w) <= 1
            /\ calls[1].ok =>
                  /\ Len(w) = 1
                  /\ w[1].verb = "put" /\ w[1].path = "nodes/qemu/config"
                  /\ w[1].args = <<<<"memory", mb>>>>
            /\ (\A k \in 1..Len(calls) : calls[k].ok) =>
                  (ret = Returned("True") /\ Self.maxmem = mb)
            /\ (\E k \in 1..Len(calls) : ~calls[k].ok) => ret = Returned("False")

\* C7, the frame: a set_memory call that returns False leaves the cached
\* maxmem as it was.
C7_Frame ==
    (op'.name = "set_memory" /\ ret' = Returned("False")) => vm'[1].maxmem = Self.maxmem

ValidOfLen(name, n) ==
    Len(name) = n /\ \A i \in 1..n : name[i] \in LowerLetters \cup Digits

\* What C8 says of every sanitized name: at most 253 characters, each label at
\* most 63, and each label the start of the label it was cut from.
LengthsCapped ==
    LET before == SplitDots(BeforeLabelCap(new_name))
        after == SplitDots(sanitized_name)
    IN  /\ Len(sanitized_name) <= MaxNameLen
        /\ Len(after) = Len(before)
        /\ \A k \in 1..Len(after) :
              /\ Len(after[k]) <= MaxLabelLen
              /\ after[k] = SubSeq(before[k], 1, Len(after[k]))
              /\ Len(before[k]) <= MaxLabelLen => after[k] = before[k]

\* C8 as claimed: the lengths are capped, and a name of 300 valid characters
\* is sent cut to exactly 253.
C8_Original ==
    sanitized_name # NotRun =>
        /\ LengthsCapped
        /\ ValidOfLen(new_name, 300) => Len(sanitized_name) = 253

\* C8 as amended: the lengths are capped, and a name of 300 valid characters,
\* one label, is sent cut to exactly 63.
C8_Lengths ==
    sanitized_name # NotRun =>
        /\ LengthsCapped
        /\ ValidOfLen(new_name, 300) => Len(sanitized_name) = 63

\* C8's case: a name of 300 valid characters was sanitized.
C8_Witness ==
    /\ sanitized_name # NotRun
    /\ ValidOfLen(new_name, 300)
    /\ Len(sanitized_name) = MaxLabelLen

\* C9: the sanitized name holds only a-z, 0-9 and hyphens, and neither starts
\* nor ends with a hyphen.
C9_Original ==
    sanitized_name # NotRun =>
        /\ \A i \in 1..Len(sanitized_name) : sanitized_name[i] \in AllowedChars
        /\ sanitized_name # <<>> =>
              /\ sanitized_name[1] # "-"
              /\ sanitized_name[Len(sanitized_name)] # "-"

\* C10: after a start_vm call whose start request succeeded the cached status
\* is 'running' (so the next start_vm issues no start request).
C10_Original ==
    (op.name = "start_vm" /\ Writes(calls) # <<>> /\ Writes(calls)[1].ok) =>
        get_status(Self) = "running"

====
